---- MODULE Spec2Model ----
(***************************************************************************)
(* AbxRxPro: a model of the report fusion (abxrxpro.py, DataHandler) and   *)
(* of the phenotype-genotype correlation pass (abxgenecorr.py, abxcorr).   *)
(*                                                                         *)
(* Three specifications share the variables:                               *)
(*   SpecStrength  abxcorr.strength applied to one coefficient             *)
(*   SpecCorr      assign_gene calls building the fused data, then         *)
(*                 abxcorr(data, pheno) and abxcorr.__call__               *)
(*   Spec          the module's dispatch, DataHandler.__call__ (phenotype, *)
(*                 the three loaders, annotations), plot and open_profile  *)
(***************************************************************************)
EXTENDS Integers, Sequences, FiniteSets, TLC

(***************************************************************************)
(* Coefficients.  A Pearson coefficient is Cxy / sqrt(Vx * Vy); it is kept *)
(* exactly as [s, n, d], meaning s * sqrt(n / d) with s its sign and n/d   *)
(* in lowest terms.  d = 0 is the undefined coefficient (NaN).             *)
(***************************************************************************)
RECURSIVE Gcd(_, _)
Gcd(a, b) == IF b = 0 THEN a ELSE Gcd(b, a % b)

Sign(v) == IF v > 0 THEN 1 ELSE IF v < 0 THEN -1 ELSE 0

NaN == [s |-> 0, n |-> 0, d |-> 0]

IsNaN(x) == x.d = 0

Coef(sgn, num, den) ==
    IF den = 0 THEN NaN
    ELSE LET g == Gcd(num, den) IN [s |-> sgn, n |-> num \div g, d |-> den \div g]

\* x >= c/100 as Python evaluates it: False when x is NaN
Geq(x, c) ==
    /\ ~IsNaN(x)
    /\ IF c > 0 THEN x.s = 1 /\ x.n * 10000 >= c * c * x.d
       ELSE IF c = 0 THEN x.s >= 0
       ELSE x.s >= 0 \/ x.n * 10000 <= c * c * x.d

\* x <= c/100 as Python evaluates it: False when x is NaN
Leq(x, c) ==
    /\ ~IsNaN(x)
    /\ IF c > 0 THEN x.s <= 0 \/ x.n * 10000 <= c * c * x.d
       ELSE IF c = 0 THEN x.s <= 0
       ELSE x.s = -1 /\ x.n * 10000 >= c * c * x.d

\* mutant of strength: the strong-positive bucket opens above 0.40, not at it
strength_open(x) ==
    IF Geq(x, 70) THEN "very strong positive relationship"
    ELSE IF Leq(x, 69) /\ Geq(x, 40) /\ ~Leq(x, 40) THEN "strong positive relationship"
    ELSE IF Leq(x, 39) /\ Geq(x, 30) THEN "moderate positive relationship"
    ELSE IF Leq(x, 29) /\ Geq(x, 20) THEN "weak positive relationship"
    ELSE IF Leq(x, 19) /\ Geq(x, 1) THEN "No or negligible relationship"
    ELSE IF Leq(x, -1) /\ Geq(x, -19) THEN "No or neglibigle relationship"
    ELSE IF Leq(x, -20) /\ Geq(x, -29) THEN "weak negative relationship"
    ELSE IF Leq(x, -30) /\ Geq(x, -39) THEN "moderate negative relationship"
    ELSE IF Leq(x, -40) /\ Geq(x, -69) THEN "strong negative relationship"
    ELSE IF Leq(x, -70) THEN "very strong negative relationship"
    ELSE "No relationship"

\* mutant of strength: the last comparison is taken for granted (a bare else)
strength_lastelse(x) ==
    IF Geq(x, 70) THEN "very strong positive relationship"
    ELSE IF Leq(x, 69) /\ Geq(x, 40) THEN "strong positive relationship"
    ELSE IF Leq(x, 39) /\ Geq(x, 30) THEN "moderate positive relationship"
    ELSE IF Leq(x, 29) /\ Geq(x, 20) THEN "weak positive relationship"
    ELSE IF Leq(x, 19) /\ Geq(x, 1) THEN "No or negligible relationship"
    ELSE IF Leq(x, -1) /\ Geq(x, -19) THEN "No or neglibigle relationship"
    ELSE IF Leq(x, -20) /\ Geq(x, -29) THEN "weak negative relationship"
    ELSE IF Leq(x, -30) /\ Geq(x, -39) THEN "moderate negative relationship"
    ELSE IF Leq(x, -40) /\ Geq(x, -69) THEN "strong negative relationship"
    ELSE "very strong negative relationship"

\* abxcorr.strength: the chained comparisons, in source order
strength(x) ==
    IF Geq(x, 70) THEN "very strong positive relationship"
    ELSE IF Leq(x, 69) /\ Geq(x, 40) THEN "strong positive relationship"
    ELSE IF Leq(x, 39) /\ Geq(x, 30) THEN "moderate positive relationship"
    ELSE IF Leq(x, 29) /\ Geq(x, 20) THEN "weak positive relationship"
    ELSE IF Leq(x, 19) /\ Geq(x, 1) THEN "No or negligible relationship"
    ELSE IF Leq(x, -1) /\ Geq(x, -19) THEN "No or neglibigle relationship"
    ELSE IF Leq(x, -20) /\ Geq(x, -29) THEN "weak negative relationship"
    ELSE IF Leq(x, -30) /\ Geq(x, -39) THEN "moderate negative relationship"
    ELSE IF Leq(x, -40) /\ Geq(x, -69) THEN "strong negative relationship"
    ELSE IF Leq(x, -70) THEN "very strong negative relationship"
    ELSE "No relationship"

Buckets ==
    { "very strong positive relationship", "strong positive relationship",
      "moderate positive relationship", "weak positive relationship",
      "No or negligible relationship", "No or neglibigle relationship",
      "weak negative relationship", "moderate negative relationship",
      "strong negative relationship", "very strong negative relationship" }

(***************************************************************************)
(* Bounds and input universes                                              *)
(***************************************************************************)
\* isolates of a run are 1..n with n <= MaxIsolates (the phenotype table's index)
MaxIsolates == 2
\* assign_gene calls made while building the fused data of a correlation run
MaxAssign == 4
\* coefficients handed to strength alone are the multiples of 1/Scale in [-1, 1]
Scale == 200
\* passes made by one abxcorr object
MaxPasses == 2
\* rows one loader reads from the report files of its directory
MaxRows == 2
\* assign_gene calls made by the loaders of one DataHandler.__call__
MaxCalls == 3

Genes == {"geneA", "geneB"}

Antibiotics == {"AntibioticX", "AntibioticY"}

\* keys under which the loaders file genes: an antibiotic name or a drug class
Keys == {"AntibioticX", "ClassZ"}

Calls == {"R", "I", "S", "U"}

\* settings.json["antibiotics"]: antibiotic -> drug class, in file order
class_antibiotic ==
    << [abx |-> "AntibioticX", cls |-> "ClassZ"],
       [abx |-> "AntibioticY", cls |-> "ClassZ"] >>

VARIABLES
    xin,              \* strength's argument: [def, t], t / Scale when def, else NaN
    st,               \* strength's result, "none" before the call
    isolateIDs,       \* DataHandler.isolateIDs: the phenotype table's index
    data,             \* DataHandler.data / abxcorr.data (one object): isolate -> key -> genes
    GeneFrequencies,  \* DataHandler.GeneFrequencies: gene -> isolates (<< >>: no entry)
    pheno,            \* the phenotype table given to abxcorr: [columns, cells]
    antibiotics,      \* the analysis scope: the antibiotics selected for the run
    cpc,              \* correlation run: "fusing", "constructed", "done", or "off"
    phen,             \* abxcorr.phen: the table with calls replaced by numbers
    data0,            \* the fused data as it was when abxcorr was constructed
    comps,            \* the correlations computed by the last pass, in order
    out,              \* the records printed by the last pass, in order
    passes,           \* the number of passes made
    args,             \* the arguments of DataHandler.__call__ and __init__
    pc,               \* the statement of DataHandler.__call__ reached, or "off"
    err,              \* the exception that ended __call__, "none" while there is none
    globbed,          \* per source: "not run", or whether glob found "none" or "some" files
    ClassSelection,   \* DataHandler.ClassSelection: the selected antibiotics' classes
    Genotype,         \* DataHandler.Genotype
    show_genefrequency, \* DataHandler.show_genefrequency
    textoverlay,      \* DataHandler.textoverlay
    antibioticcolours, \* DataHandler.antibioticcolours
    AbxAnnots,        \* DataHandler.AbxAnnots
    GeneCount,        \* DataHandler.GeneCount
    calls,            \* the assign_gene calls that returned, in order: [ID, key, gene]
    gffig,            \* the local gffig of plot / open_profile: "unbound", "None", "figure"
    produced          \* what was written or displayed, in order

strVars == <<xin, st>>
fuseVars == <<isolateIDs, data, GeneFrequencies>>
corrVars == <<pheno, antibiotics, cpc, phen, data0, comps, out, passes>>
pipeVars == <<args, pc, err, globbed, ClassSelection, Genotype, show_genefrequency,
              textoverlay, antibioticcolours, AbxAnnots, GeneCount, calls, gffig, produced>>
vars == <<xin, st, isolateIDs, data, GeneFrequencies, pheno, antibiotics, cpc, phen,
          data0, comps, out, passes, args, pc, err, globbed, ClassSelection, Genotype,
          show_genefrequency, textoverlay, antibioticcolours, AbxAnnots, GeneCount,
          calls, gffig, produced>>

StrengthOff == xin = [def |-> FALSE, t |-> 0] /\ st = "off"
FuseOff == isolateIDs = << >> /\ data = << >> /\ GeneFrequencies = << >>
CorrOff ==
    /\ pheno = << >> /\ antibiotics = {} /\ cpc = "off" /\ phen = << >>
    /\ data0 = << >> /\ comps = << >> /\ out = << >> /\ passes = 0
PipeOff ==
    /\ args = << >> /\ pc = "off" /\ err = "none" /\ globbed = << >>
    /\ ClassSelection = << >> /\ Genotype = FALSE /\ show_genefrequency = FALSE
    /\ textoverlay = << >> /\ antibioticcolours = << >>
    /\ AbxAnnots = << >> /\ GeneCount = << >>
    /\ calls = << >> /\ gffig = "unbound" /\ produced = << >>

(***************************************************************************)
(* SpecStrength: strength applied to one coefficient                       *)
(***************************************************************************)
Grid == (0 - Scale) .. Scale

Inputs == {[def |-> TRUE, t |-> t] : t \in Grid} \cup {[def |-> FALSE, t |-> 0]}

FromGrid(a) == IF a.def THEN Coef(Sign(a.t), a.t * a.t, Scale * Scale) ELSE NaN

InitStrength ==
    /\ xin \in Inputs
    /\ st = "none"
    /\ FuseOff /\ CorrOff /\ PipeOff

Strength ==
    /\ st = "none"
    /\ st' = strength(FromGrid(xin))
    /\ UNCHANGED <<xin, fuseVars, corrVars, pipeVars>>

NextStrength == Strength

SpecStrength == InitStrength /\ [][NextStrength]_vars

\* the row of the classification table that holds t / Scale, "gap" when none does
TableBucket(t) ==
    LET h == 100 * t
        In(lo, hi) == lo * Scale <= h /\ h <= hi * Scale
    IN  IF h >= 70 * Scale THEN "very strong positive relationship"
        ELSE IF In(40, 69) THEN "strong positive relationship"
        ELSE IF In(30, 39) THEN "moderate positive relationship"
        ELSE IF In(20, 29) THEN "weak positive relationship"
        ELSE IF In(1, 19) THEN "No or negligible relationship"
        ELSE IF In(-19, -1) THEN "No or neglibigle relationship"
        ELSE IF In(-29, -20) THEN "weak negative relationship"
        ELSE IF In(-39, -30) THEN "moderate negative relationship"
        ELSE IF In(-69, -40) THEN "strong negative relationship"
        ELSE IF h <= (0 - 70) * Scale THEN "very strong negative relationship"
        ELSE "gap"

StrengthCalled == st \notin {"none", "off"}

\* C4: a coefficient lying in one of the table's closed intervals (end points
\* included) is given that interval's bucket by strength, whatever else the
\* state holds.
C4_ClosedIntervals ==
    (StrengthCalled /\ xin.def /\ TableBucket(xin.t) # "gap") => st = TableBucket(xin.t)

\* strength has classified exactly 0.40 (strong positive)
C4_Witness ==
    StrengthCalled /\ xin.def /\ 100 * xin.t = 40 * Scale
        /\ st = "strong positive relationship"

\* C5: every defined coefficient in [-1, 1] is given one of the ten buckets;
\* only the undefined coefficient is "No relationship".
C5_OnlyUndefinedSuppressed ==
    (StrengthCalled /\ xin.def) => st \in Buckets

(***************************************************************************)
(* The fused data.  data[ID] is a Python dict key -> list of genes, kept   *)
(* as the sequence of its items [k, g] in insertion order.                 *)
(***************************************************************************)
Range(q) == {q[j] : j \in DOMAIN q}

RECURSIVE SumTo(_, _)
SumTo(f, n) == IF n = 0 THEN 0 ELSE f[n] + SumTo(f, n - 1)

RECURSIVE Flatten(_)
Flatten(qq) == IF qq = << >> THEN << >> ELSE Head(qq) \o Flatten(Tail(qq))

HasKey(row, k) == \E j \in DOMAIN row : row[j].k = k

GenesOf(row, k) == row[CHOOSE j \in DOMAIN row : row[j].k = k].g

\* row[k] = genes, for a key the row already has
SetGenes(row, k, genes) ==
    [j \in DOMAIN row |-> IF row[j].k = k THEN [k |-> k, g |-> genes] ELSE row[j]]

\* mutant of AssignData: a gene the list already has is not appended again
AssignData_distinct(d, ID, antibiotic, gene) ==
    [d EXCEPT ![ID] =
        IF HasKey(@, antibiotic)
        THEN IF gene \in Range(GenesOf(@, antibiotic)) THEN @
             ELSE SetGenes(@, antibiotic, Append(GenesOf(@, antibiotic), gene))
        ELSE Append(@, [k |-> antibiotic, g |-> <<gene>>])]

\* assign_gene, lines 294-297: append to data[ID][antibiotic], or start the list
AssignData(d, ID, antibiotic, gene) ==
    [d EXCEPT ![ID] =
        IF HasKey(@, antibiotic)
        THEN SetGenes(@, antibiotic, Append(GenesOf(@, antibiotic), gene))
        ELSE Append(@, [k |-> antibiotic, g |-> <<gene>>])]

\* mutant of AssignFreq: an isolate is recorded for a gene only the first time
\* the gene is seen at all
AssignFreq_firstonly(gf, ID, gene) ==
    IF gf[gene] # << >> THEN gf ELSE [gf EXCEPT ![gene] = <<ID>>]

\* assign_gene, lines 299-302: append ID to the gene's isolates, or start them
AssignFreq(gf, ID, gene) ==
    IF gf[gene] # << >>
    THEN [gf EXCEPT ![gene] = Append(@, ID)]
    ELSE [gf EXCEPT ![gene] = <<ID>>]

RECURSIVE SumOver(_, _)
SumOver(f, S) ==
    IF S = {} THEN 0 ELSE LET e == CHOOSE e \in S : TRUE IN f[e] + SumOver(f, S \ {e})

\* the number of assign_gene calls made so far
Assigned == SumOver([g \in Genes |-> Len(GeneFrequencies[g])], Genes)

(***************************************************************************)
(* abxcorr                                                                 *)
(***************************************************************************)
\* pheno.replace({"R": 1, "S": 0, "U": 0, "I": 0.5}), in halves
PhenCode(call) ==
    IF call = "R" THEN 2 ELSE IF call = "I" THEN 1 ELSE 0

Replace(table) ==
    [columns |-> table.columns,
     cells |-> [i \in DOMAIN table.cells |->
                  [b \in table.columns |-> PhenCode(table.cells[i][b])]]]

\* the (isolate, key) pairs in the order of the two loops of lines 56-57
Visits(d) ==
    Flatten([i \in DOMAIN d |-> [j \in DOMAIN d[i] |-> [iso |-> i, k |-> d[i][j].k]]])

\* lines 56-62.  agp is antibiotic_gene_pair, kept as the sequence of its items
\* [k, iso]: the value stored for key k is the list object data[iso][k] itself
\* (line 62 stores the list, not a copy), so line 60's += extends that list.
RECURSIVE PairsLoop(_, _, _)
PairsLoop(visits, agp, d) ==
    IF visits = << >> THEN [agp |-> agp, data |-> d]
    ELSE LET v == Head(visits)
             genes == GenesOf(d[v.iso], v.k)
         IN  IF \E j \in DOMAIN agp : agp[j].k = v.k
             THEN LET o == agp[CHOOSE j \in DOMAIN agp : agp[j].k = v.k].iso
                  IN  PairsLoop(Tail(visits), agp,
                                [d EXCEPT ![o] =
                                    SetGenes(@, v.k, GenesOf(@, v.k) \o genes)])
             ELSE PairsLoop(Tail(visits), Append(agp, [k |-> v.k, iso |-> v.iso]), d)

\* get_antibiotic_gene_pairs: the keys in discovery order, each key's set of
\* genes (lines 64-65), and the data as the loop leaves it
get_antibiotic_gene_pairs(d) ==
    LET r == PairsLoop(Visits(d), << >>, d)
    IN  [keys |-> [j \in DOMAIN r.agp |-> r.agp[j].k],
         genes |-> [j \in DOMAIN r.agp |->
                      Range(GenesOf(r.data[r.agp[j].iso], r.agp[j].k))],
         data |-> r.data]

\* get_abx: a drug class expands to its antibiotics that are columns of phen,
\* in the order of the settings; any other key stands for itself
get_abx(ph, gene, antibiotic) ==
    IF \E j \in DOMAIN class_antibiotic : class_antibiotic[j].cls = antibiotic
    THEN SelectSeq([j \in DOMAIN class_antibiotic |-> class_antibiotic[j].abx],
                   LAMBDA abx :
                       /\ \E j \in DOMAIN class_antibiotic :
                              class_antibiotic[j].abx = abx
                                  /\ class_antibiotic[j].cls = antibiotic
                       /\ abx \in ph.columns)
    ELSE <<antibiotic>>

\* mutant of fetch_results: every occurrence of the gene in the list is counted
fetch_results_countdups(d, antibiotic, gene) ==
    [sample \in DOMAIN d |->
        IF HasKey(d[sample], antibiotic)
        THEN Cardinality({j \in DOMAIN GenesOf(d[sample], antibiotic) :
                             GenesOf(d[sample], antibiotic)[j] = gene})
        ELSE 0]

\* mutant of fetch_results: a sample scores 1 only when its list holds the gene
\* exactly once
fetch_results_once(d, antibiotic, gene) ==
    [sample \in DOMAIN d |->
        IF HasKey(d[sample], antibiotic)
           /\ Cardinality({j \in DOMAIN GenesOf(d[sample], antibiotic) :
                              GenesOf(d[sample], antibiotic)[j] = gene}) = 1
        THEN 1 ELSE 0]

\* fetch_results: 1 for the samples that list gene under antibiotic, else 0
fetch_results(d, antibiotic, gene) ==
    [sample \in DOMAIN d |->
        IF HasKey(d[sample], antibiotic) /\ gene \in Range(GenesOf(d[sample], antibiotic))
        THEN 1 ELSE 0]

\* Pearson's coefficient of the vectors y and r; NaN when either has no variance
Pearson(y, r) ==
    LET n == Len(r)
        Sx == SumTo(r, n)
        Sy == SumTo(y, n)
        Sxy == SumTo([i \in 1..n |-> r[i] * y[i]], n)
        Sxx == SumTo([i \in 1..n |-> r[i] * r[i]], n)
        Syy == SumTo([i \in 1..n |-> y[i] * y[i]], n)
        Cxy == n * Sxy - Sx * Sy
        Vx == n * Sxx - Sx * Sx
        Vy == n * Syy - Sy * Sy
    IN  IF Vx = 0 \/ Vy = 0 THEN NaN
        ELSE Coef(Sign(Cxy), Cxy * Cxy, Vx * Vy)

Column(ph, b) == [i \in DOMAIN ph.cells |-> ph.cells[i][b]]

\* mutant of corr: every antibiotic is correlated against one fixed column of
\* the table instead of its own
corr_fixedcolumn(ph, b, r) ==
    Pearson(Column(ph, CHOOSE c \in ph.columns : TRUE), r)

\* line 47, self.phen[b].corr(r): both series are indexed by the isolates
corr(ph, b, r) == Pearson(Column(ph, b), r)

\* lines 42-50 for one (antib, gene): the correlations computed, in order
CorrelatePair(ph, d, antib, gene) ==
    LET a == SelectSeq(get_abx(ph, gene, antib), LAMBDA b : b \in ph.columns)
        r == fetch_results(d, antib, gene)
    IN  [j \in DOMAIN a |->
            LET cor == corr(ph, a[j], r)
            IN  [antib |-> antib, gene |-> gene, b |-> a[j], r |-> r,
                 cor |-> cor, st |-> strength(cor)]]

\* the orders in which a Python set of genes may be iterated
GeneOrders == {q \in [1..Cardinality(Genes) -> Genes] : Range(q) = Genes}

\* mutant of PassComps: the outer loop runs over every isolate's keys, so a key
\* is taken once for each isolate that has it
PassComps_perisolate(ph, p, ord) ==
    LET ks == [j \in DOMAIN Visits(p.data) |->
                  CHOOSE i \in DOMAIN p.keys : p.keys[i] = Visits(p.data)[j].k]
    IN  Flatten([v \in DOMAIN ks |->
            Flatten([i \in DOMAIN SelectSeq(ord[ks[v]], LAMBDA g : g \in p.genes[ks[v]]) |->
                CorrelatePair(ph, p.data, p.keys[ks[v]],
                              SelectSeq(ord[ks[v]], LAMBDA g : g \in p.genes[ks[v]])[i])])])

\* lines 39-50: p is what get_antibiotic_gene_pairs returned; ord[j] is the
\* order in which the set of genes of the j-th key is iterated
PassComps(ph, p, ord) ==
    Flatten([j \in DOMAIN p.keys |->
        Flatten([i \in DOMAIN SelectSeq(ord[j], LAMBDA g : g \in p.genes[j]) |->
            CorrelatePair(ph, p.data, p.keys[j],
                          SelectSeq(ord[j], LAMBDA g : g \in p.genes[j])[i])])])

\* line 49-50: what is printed
Printed(cs) ==
    LET kept == SelectSeq(cs, LAMBDA c : c.st # "No relationship")
    IN  [j \in DOMAIN kept |->
            [gene |-> kept[j].gene, b |-> kept[j].b, cor |-> kept[j].cor,
             st |-> kept[j].st]]

(***************************************************************************)
(* SpecCorr: assign_gene calls build the fused data of isolates 1..n, then *)
(* abxcorr(data, pheno) is constructed and called                          *)
(***************************************************************************)
\* the rows a phenotype table is made of (calls for AntibioticX, AntibioticY)
PhenoRows ==
    { [AntibioticX |-> "R", AntibioticY |-> "S"],
      [AntibioticX |-> "S", AntibioticY |-> "R"],
      [AntibioticX |-> "I", AntibioticY |-> "U"] }

\* the column sets a phenotype table may have
PhenoColumns == {{"AntibioticX", "AntibioticY"}, {"AntibioticY"}}

PhenoTables(n, columns) ==
    { [columns |-> columns,
       cells |-> [i \in 1..n |-> [b \in columns |-> rows[i][b]]]] :
      rows \in [1..n -> PhenoRows] }

InitCorr ==
    /\ xin = [def |-> FALSE, t |-> 0] /\ st = "off"
    /\ \E n \in 1..MaxIsolates : 
          /\ isolateIDs = [i \in 1..n |-> i]
          /\ data = [i \in 1..n |-> << >>]
    /\ GeneFrequencies = [g \in Genes |-> << >>]
    /\ antibiotics = {}
    /\ pheno = << >> /\ phen = << >> /\ data0 = << >>
    /\ cpc = "fusing" /\ comps = << >> /\ out = << >> /\ passes = 0
    /\ PipeOff

\* DataHandler.assign_gene(ID, antibiotic, gene) for an isolate of the table
AssignGene ==
    /\ cpc = "fusing"
    /\ Assigned < MaxAssign
    /\ \E ID \in DOMAIN data, antibiotic \in Keys, gene \in Genes :
          /\ data' = AssignData(data, ID, antibiotic, gene)
          /\ GeneFrequencies' = AssignFreq(GeneFrequencies, ID, gene)
    /\ UNCHANGED <<strVars, isolateIDs, corrVars, pipeVars>>

\* abxcorr.__init__(data, pheno).  The phenotype table is read here, and with
\* it the analysis scope, some of its columns; self.data is the caller's
\* data, not a copy
Construct ==
    /\ cpc = "fusing"
    /\ \E columns \in PhenoColumns :
          /\ antibiotics' \in (SUBSET columns) \ {{}}
          /\ pheno' \in PhenoTables(Len(isolateIDs), columns)
    /\ phen' = Replace(pheno')
    /\ data0' = data
    /\ cpc' = "constructed"
    /\ UNCHANGED <<strVars, fuseVars, comps, out, passes, pipeVars>>

\* abxcorr.__call__()
Call ==
    /\ cpc \in {"constructed", "done"}
    /\ passes < MaxPasses
    /\ LET p == get_antibiotic_gene_pairs(data)
       IN  /\ data' = p.data
           /\ \E ord \in [DOMAIN p.keys -> GeneOrders] :
                 comps' = PassComps(phen, p, ord)
           /\ out' = Printed(comps')
    /\ cpc' = "done"
    /\ passes' = passes + 1
    /\ UNCHANGED <<strVars, isolateIDs, GeneFrequencies, pheno, antibiotics, phen, data0,
                   pipeVars>>

NextCorr == AssignGene \/ Construct \/ Call

SpecCorr == InitCorr /\ [][NextCorr]_vars

(***************************************************************************)
(* Claims about the correlation pass                                       *)
(***************************************************************************)
PassDone == cpc = "done"

\* isolate i holds gene under key in the data d
Holds(d, i, key, gene) == HasKey(d[i], key) /\ gene \in Range(GenesOf(d[i], key))

Constant(r) == \A i, j \in DOMAIN r : r[i] = r[j]

\* a key is a recognized drug class when some antibiotic of the settings maps to it
IsClass(key) == \E j \in DOMAIN class_antibiotic : class_antibiotic[j].cls = key

ClassOf(abx) ==
    class_antibiotic[CHOOSE j \in DOMAIN class_antibiotic : class_antibiotic[j].abx = abx].cls

\* C2: a correlation pass leaves the fused data and the phenotype table as
\* they were: every isolate's list under every key is the same after the pass.
C2_PassLeavesInputsUnchanged == [][Call => (data' = data /\ pheno' = pheno)]_vars

\* C3: every indicator vector used for a correlation scores an isolate 1
\* exactly when fusion listed the gene for that isolate under the key.
C3_IndicatorIsFusedPresence ==
    PassDone =>
        \A j \in DOMAIN comps : \A i \in DOMAIN data0 :
            comps[j].r[i] = IF Holds(data0, i, comps[j].antib, comps[j].gene) THEN 1 ELSE 0

\* every printed record comes from a correlation that was given a bucket, and
\* every such correlation is printed
PrintedAreBucketed ==
    /\ Len(out) = Cardinality({j \in DOMAIN comps : comps[j].st # "No relationship"})
    /\ \A k \in DOMAIN out : \E j \in DOMAIN comps :
          /\ comps[j].st \in Buckets
          /\ out[k] = [gene |-> comps[j].gene, b |-> comps[j].b,
                       cor |-> comps[j].cor, st |-> comps[j].st]

\* C6: a (key, gene) whose indicator is the same for every isolate, as fused
\* or as used by the pass, gets an undefined coefficient, "No relationship",
\* and no printed record.
C6_ZeroVarianceSuppressed ==
    PassDone =>
        /\ PrintedAreBucketed
        /\ \A j \in DOMAIN comps :
              (\/ Constant(comps[j].r)
               \/ \A i \in DOMAIN data0 :
                      Holds(data0, i, comps[j].antib, comps[j].gene))
              => /\ IsNaN(comps[j].cor)
                 /\ comps[j].st = "No relationship"
                 /\ comps[j].st \notin Buckets

\* a gene present in both isolates was correlated against a column that varies,
\* while another correlation of the same pass was printed
C6_Witness ==
    /\ PassDone /\ Len(isolateIDs) = 2 /\ out # << >>
    /\ \E j \in DOMAIN comps :
          /\ comps[j].r = <<1, 1>>
          /\ phen.cells[1][comps[j].b] # phen.cells[2][comps[j].b]
          /\ \A i \in DOMAIN data0 : Holds(data0, i, comps[j].antib, comps[j].gene)

\* the synthetic fusion map and phenotype of the round trip
RoundTripInput ==
    /\ data0 = << <<[k |-> "AntibioticX", g |-> <<"geneA", "geneA", "geneB">>]>>,
                  <<[k |-> "AntibioticX", g |-> <<"geneB">>]>> >>
    /\ "AntibioticX" \in pheno.columns
    /\ pheno.cells[1]["AntibioticX"] = "R"
    /\ pheno.cells[2]["AntibioticX"] = "S"

\* C7: on the round-trip input the pass prints exactly (geneA, AntibioticX,
\* 1.0, very strong positive); geneA's indicator is [1, 0], the duplicate
\* counting once, and geneB's is [1, 1] and is suppressed.
C7_RoundTrip ==
    (PassDone /\ RoundTripInput) =>
        /\ out = << [gene |-> "geneA", b |-> "AntibioticX",
                     cor |-> [s |-> 1, n |-> 1, d |-> 1],
                     st |-> "very strong positive relationship"] >>
        /\ {[gene |-> comps[j].gene, r |-> comps[j].r, st |-> comps[j].st] :
                j \in DOMAIN comps}
             = { [gene |-> "geneA", r |-> <<1, 0>>,
                  st |-> "very strong positive relationship"],
                 [gene |-> "geneB", r |-> <<1, 1>>, st |-> "No relationship"] }

C7_Witness == PassDone /\ RoundTripInput /\ Len(out) = 1

\* the correlations the pass computed for gene under key, in order
CompsOf(key, gene) ==
    SelectSeq(comps, LAMBDA c : c.antib = key /\ c.gene = gene)

\* the genes fusion filed under key, in any isolate
GenesUnder(key) == {g \in Genes : \E i \in DOMAIN data0 : Holds(data0, i, key, g)}

\* both antibiotics of the class are in the analysis scope
TwoInScope == antibiotics = {"AntibioticX", "AntibioticY"}

\* C8 as stated: with two antibiotics of the scope in class K, every gene under
\* K gets two printed records, one per antibiotic.
C8_TwoRecordsPerGene ==
    (PassDone /\ TwoInScope) =>
        \A g \in GenesUnder("ClassZ") :
            \A b \in antibiotics :
                \E j \in DOMAIN CompsOf("ClassZ", g) :
                    /\ CompsOf("ClassZ", g)[j].b = b
                    /\ CompsOf("ClassZ", g)[j].st \in Buckets
                    /\ \E k \in DOMAIN out : out[k].gene = g /\ out[k].b = b

\* C8 as amended: with two antibiotics of the scope in class K, the pass
\* computes for every gene under K two correlations, one per antibiotic, each
\* the coefficient of that antibiotic's own column with the pass's indicator
\* of (K, gene); a record is printed for exactly those given a bucket.
C8_TwoCorrelationsPerGene ==
    (PassDone /\ TwoInScope) =>
        /\ PrintedAreBucketed
        /\ \A g \in GenesUnder("ClassZ") :
              LET cs == CompsOf("ClassZ", g)
              IN  /\ [j \in DOMAIN cs |-> cs[j].b] = <<"AntibioticX", "AntibioticY">>
                  /\ \A j \in DOMAIN cs :
                        /\ cs[j].cor = Pearson(Column(phen, cs[j].b), cs[j].r)
                        /\ cs[j].st = strength(cs[j].cor)
                        /\ cs[j].st \in Buckets
                             => \E k \in DOMAIN out :
                                    out[k] = [gene |-> g, b |-> cs[j].b,
                                              cor |-> cs[j].cor, st |-> cs[j].st]

\* a gene under the class got two printed records with different coefficients
C8_Witness ==
    /\ PassDone /\ TwoInScope
    /\ \E g \in GenesUnder("ClassZ") :
          LET cs == CompsOf("ClassZ", g)
          IN  /\ Len(cs) = 2
              /\ cs[1].st \in Buckets /\ cs[2].st \in Buckets
              /\ cs[1].cor # cs[2].cor
              /\ Len(out) >= 2

\* the antibiotics the pass correlated for a key
Correlated(key) == {comps[j].b : j \in {i \in DOMAIN comps : comps[i].antib = key}}

\* C9: a drug class is correlated against exactly the antibiotics of the
\* analysis scope that map to it and are columns of the table; any other key
\* against itself when it is a column, else against nothing.
C9_KeyResolution ==
    PassDone =>
        \A key \in Keys :
            GenesUnder(key) # {} =>
                Correlated(key) =
                    IF IsClass(key)
                    THEN {abx \in antibiotics : ClassOf(abx) = key /\ abx \in phen.columns}
                    ELSE {key} \cap phen.columns

\* the record sets a pass prints on the inputs as abxcorr was constructed with
FreshRecordSets ==
    LET p == get_antibiotic_gene_pairs(data0)
    IN  {Range(Printed(PassComps(phen, p, ord))) : ord \in [DOMAIN p.keys -> GeneOrders]}

\* C11: a pass made after another prints the same set of records as the one
\* before it, and every pass prints the set of records a fresh pass over the
\* inputs as given prints.
C11_Idempotent ==
    /\ [][(passes' = passes + 1 /\ passes >= 1) => Range(out') = Range(out)]_vars
    /\ [](PassDone => FreshRecordSets = {Range(out)})

\* a second pass ran on data the first had changed, and records were printed
C11_Witness == passes = 2 /\ out # << >> /\ data # data0 /\ Len(isolateIDs) = 2

\* C12 as stated: no two printed records have the same gene and the same
\* antibiotic column.
C12_OneRecordPerGeneAntibiotic ==
    PassDone =>
        \A j, k \in DOMAIN out :
            (out[j].gene = out[k].gene /\ out[j].b = out[k].b) => j = k

\* C12 as amended: no two correlations of a pass are for the same key, gene
\* and antibiotic column, and the printed records are the bucketed ones, one
\* each; two records share gene and column only when they come from two keys.
C12_OneRecordPerKeyGeneAntibiotic ==
    PassDone =>
        /\ PrintedAreBucketed
        /\ \A j, k \in DOMAIN comps :
              (comps[j].antib = comps[k].antib /\ comps[j].gene = comps[k].gene
                  /\ comps[j].b = comps[k].b) => j = k

\* a gene filed under the antibiotic and under its class got two records for
\* the antibiotic's column
C12_Witness ==
    /\ PassDone
    /\ \E j, k \in DOMAIN comps :
          /\ comps[j].antib = "AntibioticX" /\ comps[k].antib = "ClassZ"
          /\ comps[j].gene = comps[k].gene
          /\ comps[j].b = "AntibioticX" /\ comps[k].b = "AntibioticX"
          /\ comps[j].st \in Buckets /\ comps[k].st \in Buckets
    /\ Len(out) >= 2

\* the first position of x in the sequence q
First(q, x) == CHOOSE j \in DOMAIN q : q[j] = x /\ \A i \in 1..(j - 1) : q[i] # x

\* the keys in the order the isolates' keys are iterated
KeysSeen(d) == [j \in DOMAIN Visits(d) |-> Visits(d)[j].k]

\* the genes filed under key, isolate after isolate
GenesSeen(d, key) ==
    Flatten([i \in DOMAIN d |-> IF HasKey(d[i], key) THEN GenesOf(d[i], key) ELSE << >>])

\* C13: of two printed records the earlier one has the key discovered first,
\* or the same key and the gene discovered first under that key.
C13_DiscoveryOrder ==
    PassDone =>
        LET kept == SelectSeq(comps, LAMBDA c : c.st # "No relationship")
        IN  \A i, j \in DOMAIN kept :
                i < j =>
                    LET ki == First(KeysSeen(data0), kept[i].antib)
                        kj == First(KeysSeen(data0), kept[j].antib)
                    IN  \/ ki < kj
                        \/ /\ ki = kj
                           /\ First(GenesSeen(data0, kept[i].antib), kept[i].gene)
                                <= First(GenesSeen(data0, kept[j].antib), kept[j].gene)

(***************************************************************************)
(* Spec: DataHandler.__call__(pheno, RGI, staramr, amrfinder).  Names are  *)
(* taken as already capitalised; the colours and dev_1/dev_2 arguments are *)
(* left out.                                                               *)
(***************************************************************************)
Sources == {"RGI", "staramr", "amrfinder"}

\* what -a may give: nothing, a column of the table, a name the table lacks
AntibioticArgs == {{}, {"AntibioticX"}, {"AntibioticW"}}

\* rows of the phenotype sheet: "nan" is an empty cell, "Q" an unknown call
SheetRows ==
    << [AntibioticX |-> "R", AntibioticY |-> "S"],
       [AntibioticX |-> "nan", AntibioticY |-> "I"],
       [AntibioticX |-> "U", AntibioticY |-> "Q"] >>

\* the sheets read: n isolates take consecutive rows of SheetRows, or the
\* sheet has the isolates' names and no antibiotic column
Sheets ==
    { [columns |-> Antibiotics,
       cells |-> [i \in 1..n |-> SheetRows[((i + shift) % Len(SheetRows)) + 1]]] :
      n \in 1..MaxIsolates, shift \in 1..Len(SheetRows) }
    \cup { [columns |-> {}, cells |-> [i \in 1..n |-> << >>]] : n \in 1..MaxIsolates }

\* DataHandler.Colours
Colours ==
    [R |-> "rgb(238, 102, 119)", I |-> "rgb(204, 187, 68)",
     S |-> "rgb(102, 204, 238)", U |-> "rgb(68, 119, 170)"]

\* a list of antibiotics after .sort()
Sorted(S) == SelectSeq(<<"AntibioticW", "AntibioticX", "AntibioticY">>, LAMBDA a : a \in S)

\* -n name, -b name, or neither (the profile is plotted and not saved)
Modes == {"plot", "new", "build"}

NoFilesError(source) ==
    IF source = "RGI" THEN "FileNotFoundError: No files detected for RGI data"
    ELSE IF source = "staramr" THEN "FileNotFoundError: No files detected for staramr data"
    ELSE "FileNotFoundError: No files detected for amrfinder data"

Init ==
    /\ xin = [def |-> FALSE, t |-> 0] /\ st = "off"
    /\ cpc = "off" /\ phen = << >> /\ data0 = << >> /\ comps = << >> /\ out = << >>
    /\ passes = 0
    /\ args \in [pheno : BOOLEAN, sources : SUBSET Sources, antibiotics : AntibioticArgs,
                  profiles : BOOLEAN, load : BOOLEAN, export : BOOLEAN, hide : BOOLEAN,
                  mode : Modes]
    /\ pheno \in IF args.pheno THEN Sheets ELSE {<< >>}
    /\ antibiotics = args.antibiotics
    /\ isolateIDs = << >> /\ data = << >>
    /\ GeneFrequencies = [g \in Genes |-> << >>]
    /\ pc = "dispatch" /\ err = "none"
    /\ globbed = [s \in Sources |-> "not run"]
    /\ ClassSelection = << >> /\ Genotype = FALSE /\ show_genefrequency = args.hide
    /\ textoverlay = << >> /\ antibioticcolours = << >>
    /\ AbxAnnots = << >> /\ GeneCount = << >>
    /\ calls = << >> /\ gffig = "unbound" /\ produced = << >>

\* mutant of Raise: the error is reported and the run goes on to plot
Raise_reported(e) == pc' = "called" /\ err' = e

Raise(e) == pc' = "failed" /\ err' = e

\* lines 760-818, the module's dispatch on the parsed arguments (-d and
\* --find_log, which end the run like -p, are left out)
Dispatch ==
    /\ pc = "dispatch"
    /\ IF args.profiles THEN pc' = "exit" /\ err' = err
       ELSE IF ~args.pheno /\ args.sources # {}
       THEN Raise("FileNotFoundError: A file was given without phenotypic file")
       ELSE IF ~args.pheno /\ args.sources = {} /\ args.antibiotics = {} /\ ~args.load
               /\ ~args.export /\ ~args.hide /\ args.mode = "plot"
       THEN pc' = "exit" /\ err' = err
       ELSE IF args.load THEN pc' = "open_profile" /\ err' = err
       ELSE pc' = "start" /\ err' = err
    /\ UNCHANGED <<strVars, fuseVars, corrVars, args, globbed, ClassSelection, Genotype,
                   show_genefrequency, textoverlay, antibioticcolours, AbxAnnots,
                   GeneCount, calls, gffig, produced>>

\* mutant of get_pheno: a call without a colour is drawn in the colour of U
get_pheno_lenient(t, sel) ==
    LET chosen == IF sel = {} THEN t.columns ELSE sel
        filled == [i \in DOMAIN t.cells |->
                     [j \in DOMAIN Sorted(chosen) |->
                        IF t.cells[i][Sorted(chosen)[j]] = "nan" THEN "U"
                        ELSE t.cells[i][Sorted(chosen)[j]]]]
        text == Flatten(filled)
    IN  IF sel # {} /\ ~(sel \subseteq t.columns)
        THEN [err |-> "ValueError: antibiotic not in the phenotypic file",
              antibiotics |-> sel, isolateIDs |-> << >>, textoverlay |-> << >>,
              antibioticcolours |-> << >>]
        ELSE [err |-> "none",
              antibiotics |-> chosen, isolateIDs |-> [i \in DOMAIN t.cells |-> i],
              textoverlay |-> text,
              antibioticcolours |->
                  [j \in DOMAIN text |->
                      IF text[j] \in DOMAIN Colours THEN Colours[text[j]] ELSE Colours["U"]]]

\* lines 254-289, get_pheno, on the sheet t with the -a list sel (empty: none)
\* returns the fields it sets and the exception it raises, if any
get_pheno(t, sel) ==
    LET chosen == IF sel = {} THEN t.columns ELSE sel
        filled == [i \in DOMAIN t.cells |->
                     [j \in DOMAIN Sorted(chosen) |->
                        IF t.cells[i][Sorted(chosen)[j]] = "nan" THEN "U"
                        ELSE t.cells[i][Sorted(chosen)[j]]]]
        text == Flatten(filled)
    IN  IF sel # {} /\ ~(sel \subseteq t.columns)
        THEN [err |-> "ValueError: antibiotic not in the phenotypic file",
              antibiotics |-> sel, isolateIDs |-> << >>, textoverlay |-> << >>,
              antibioticcolours |-> << >>]
        ELSE IF \E j \in DOMAIN text : text[j] \notin DOMAIN Colours
        THEN [err |-> "KeyError: Invalid phenotypic resistance value",
              antibiotics |-> chosen, isolateIDs |-> [i \in DOMAIN t.cells |-> i],
              textoverlay |-> text, antibioticcolours |-> << >>]
        ELSE [err |-> "none",
              antibiotics |-> chosen, isolateIDs |-> [i \in DOMAIN t.cells |-> i],
              textoverlay |-> text,
              antibioticcolours |-> [j \in DOMAIN text |-> Colours[text[j]]]]

\* lines 179-191: no phenotype file raises, else get_pheno
GetPheno ==
    /\ pc = "start"
    /\ IF ~args.pheno
       THEN /\ Raise("FileNotFoundError: No phenotypic data file given")
            /\ UNCHANGED <<antibiotics, isolateIDs, textoverlay, antibioticcolours>>
       ELSE LET r == get_pheno(pheno, antibiotics)
            IN  /\ antibiotics' = r.antibiotics
                /\ isolateIDs' = r.isolateIDs
                /\ textoverlay' = r.textoverlay
                /\ antibioticcolours' = r.antibioticcolours
                /\ IF r.err = "none" THEN pc' = "settings" /\ err' = err
                   ELSE Raise(r.err)
    /\ UNCHANGED <<strVars, data, GeneFrequencies, pheno, cpc, phen, data0, comps, out,
                   passes, args, globbed, ClassSelection, Genotype, show_genefrequency,
                   AbxAnnots, GeneCount, calls, gffig, produced>>

\* lines 235-243, load_antibiotic_settings: the classes of the selected antibiotics
load_antibiotic_settings(sel) ==
    [a \in {b \in sel : \E j \in DOMAIN class_antibiotic : class_antibiotic[j].abx = b}
        |-> ClassOf(a)]

\* mutant of Settings: the list of antibiotics is not checked
Settings_unchecked ==
    /\ pc = "settings"
    /\ ClassSelection' = load_antibiotic_settings(antibiotics)
    /\ data' = [i \in DOMAIN isolateIDs |-> << >>]
    /\ IF args.sources # {}
       THEN Genotype' = TRUE /\ show_genefrequency' = show_genefrequency
       ELSE show_genefrequency' = TRUE /\ Genotype' = Genotype
    /\ pc' = "RGI" /\ err' = err
    /\ UNCHANGED <<strVars, isolateIDs, GeneFrequencies, corrVars, args, globbed,
                   textoverlay, antibioticcolours, AbxAnnots, GeneCount, calls, gffig,
                   produced>>

\* lines 193-209: no antibiotics raises; else the classes, the empty data and
\* the genotype flags
Settings ==
    /\ pc = "settings"
    /\ IF antibiotics = {}
       THEN /\ Raise("ValueError: No list of antibiotics provided")
            /\ UNCHANGED <<ClassSelection, data, Genotype, show_genefrequency>>
       ELSE /\ ClassSelection' = load_antibiotic_settings(antibiotics)
            /\ data' = [i \in DOMAIN isolateIDs |-> << >>]
            /\ IF args.sources # {}
               THEN Genotype' = TRUE /\ show_genefrequency' = show_genefrequency
               ELSE show_genefrequency' = TRUE /\ Genotype' = Genotype
            /\ pc' = "RGI" /\ err' = err
    /\ UNCHANGED <<strVars, isolateIDs, GeneFrequencies, corrVars, args, globbed,
                   textoverlay, antibioticcolours, AbxAnnots, GeneCount, calls, gffig,
                   produced>>

\* the assign_gene calls of one loader, in order: a call for an isolate the
\* data has no entry for raises KeyError at line 294 and ends the loader
RECURSIVE AssignLoop(_, _, _, _)
AssignLoop(d, gf, hits, made) ==
    IF hits = << >> THEN [data |-> d, gf |-> gf, err |-> "none", made |-> made]
    ELSE LET h == Head(hits)
         IN  IF h.ID \notin DOMAIN d
             THEN [data |-> d, gf |-> gf, err |-> "KeyError: isolate ID", made |-> made]
             ELSE AssignLoop(AssignData(d, h.ID, h.key, h.gene),
                             AssignFreq(gf, h.ID, h.gene), Tail(hits), Append(made, h))

\* mutant of AssignAll: an isolate the data has no entry for is given one
RECURSIVE AssignAll_setdefault(_, _, _)
AssignAll_setdefault(d, gf, hits) ==
    IF hits = << >> THEN [data |-> d, gf |-> gf, err |-> "none", made |-> << >>]
    ELSE LET h == Head(hits)
             e == IF h.ID \in DOMAIN d THEN d ELSE Append(d, << >>)
             r == AssignAll_setdefault(AssignData(e, h.ID, h.key, h.gene),
                                       AssignFreq(gf, h.ID, h.gene), Tail(hits))
         IN  [r EXCEPT !.made = <<h>> \o @]

AssignAll(d, gf, hits) == AssignLoop(d, gf, hits, << >>)

\* the isolate names report files may carry: the sheet's, and one it lacks
FileIDs == 1..(Len(isolateIDs) + 1)

\* how many rows the next loader may read
RowsLeft == IF MaxCalls - Assigned < MaxRows THEN MaxCalls - Assigned ELSE MaxRows

RowSeqs(rows) == UNION {[1..m -> rows] : m \in 0..RowsLeft}

\* lines 357-366: a row's classes are kept when a selected antibiotic is of
\* the class; each kept class is one assign_gene call
RGIHits(rows, selection) ==
    Flatten([j \in DOMAIN rows |->
        LET kept == SelectSeq(rows[j].classes,
                              LAMBDA c : \E a \in DOMAIN selection : selection[a] = c)
        IN  [i \in DOMAIN kept |-> [ID |-> rows[j].ID, key |-> kept[i], gene |-> rows[j].gene]]])

RGIRows ==
    [ID : FileIDs, gene : Genes, classes : {<<"ClassZ">>, <<"ClassQ">>, <<"ClassQ", "ClassZ">>}]

StaramrRows == [ID : FileIDs, gene : Genes, key : {"AntibioticX"}]

AmrfinderRows == [ID : FileIDs, gene : Genes, key : Keys]

\* mutant of Loader: a directory without files is read as one without rows
Loader_silent(source, next, found, hits) ==
    /\ globbed' = [globbed EXCEPT ![source] = IF found THEN "some" ELSE "none"]
    /\ LET r == AssignAll(data, GeneFrequencies, IF found THEN hits ELSE << >>)
       IN  /\ data' = r.data
           /\ GeneFrequencies' = r.gf
           /\ calls' = calls \o r.made
           /\ IF r.err = "none" THEN pc' = next /\ err' = err ELSE Raise(r.err)

\* a loader's run: glob, pd.concat raising on no files, then the calls
Loader(source, next, found, hits) ==
    /\ globbed' = [globbed EXCEPT ![source] = IF found THEN "some" ELSE "none"]
    /\ IF ~found
       THEN /\ Raise(NoFilesError(source))
            /\ UNCHANGED <<data, GeneFrequencies, calls>>
       ELSE LET r == AssignAll(data, GeneFrequencies, hits)
            IN  /\ data' = r.data
                /\ GeneFrequencies' = r.gf
                /\ calls' = calls \o r.made
                /\ IF r.err = "none" THEN pc' = next /\ err' = err ELSE Raise(r.err)

Skip(next) == pc' = next /\ UNCHANGED <<err, globbed, data, GeneFrequencies, calls>>

loaderFrame ==
    <<strVars, isolateIDs, corrVars, args, ClassSelection, Genotype, show_genefrequency,
      textoverlay, antibioticcolours, AbxAnnots, GeneCount, gffig, produced>>

\* lines 211-213 and get_RGI
GetRGI ==
    /\ pc = "RGI"
    /\ IF "RGI" \notin args.sources THEN Skip("staramr")
       ELSE \E found \in BOOLEAN, rows \in RowSeqs(RGIRows) :
               Loader("RGI", "staramr", found, RGIHits(rows, ClassSelection))
    /\ UNCHANGED loaderFrame

\* lines 215-217 and get_staramr; the resfinder variant of the report raises
\* at line 322 before any row is used
GetStaramr ==
    /\ pc = "staramr"
    /\ IF "staramr" \notin args.sources THEN Skip("amrfinder")
       ELSE \E found \in BOOLEAN, summary \in BOOLEAN, rows \in RowSeqs(StaramrRows) :
               IF found /\ ~summary
               THEN /\ globbed' = [globbed EXCEPT !["staramr"] = "some"]
                    /\ Raise("ValueError: resfinder output of staramr")
                    /\ UNCHANGED <<data, GeneFrequencies, calls>>
               ELSE Loader("staramr", "amrfinder", found, rows)
    /\ UNCHANGED loaderFrame

\* lines 219-221 and get_amrfinder
GetAmrfinder ==
    /\ pc = "amrfinder"
    /\ IF "amrfinder" \notin args.sources THEN Skip("annotate")
       ELSE \E found \in BOOLEAN, rows \in RowSeqs(AmrfinderRows) :
               Loader("amrfinder", "annotate", found, rows)
    /\ UNCHANGED loaderFrame

\* mutant of Annotation: the marker grows with the distinct genes only
Annotation_distinct(d, selection, isolateID, antibiotic) ==
    LET own == HasKey(d[isolateID], antibiotic)
        hasClass == antibiotic \in DOMAIN selection
                        /\ HasKey(d[isolateID], selection[antibiotic])
        ownGenes == IF own THEN GenesOf(d[isolateID], antibiotic) ELSE << >>
        classGenes == IF hasClass THEN GenesOf(d[isolateID], selection[antibiotic])
                      ELSE << >>
    IN  [text |-> IF own \/ hasClass
                  THEN [none |-> FALSE,
                        parts |-> (IF own THEN <<[head |-> antibiotic,
                                                  genes |-> Range(ownGenes)]>>
                                   ELSE << >>)
                                  \o (IF hasClass
                                      THEN <<[head |-> selection[antibiotic],
                                              genes |-> Range(classGenes)]>>
                                      ELSE << >>)]
                  ELSE [none |-> TRUE, parts |-> << >>],
         count |-> 5 + Cardinality(Range(ownGenes)) + Cardinality(Range(classGenes))]

\* lines 400-421 for one (isolateID, antibiotic): the annotation, as the genes
\* listed under the antibiotic and under its class, and the marker size
Annotation(d, selection, isolateID, antibiotic) ==
    LET own == HasKey(d[isolateID], antibiotic)
        hasClass == antibiotic \in DOMAIN selection
                        /\ HasKey(d[isolateID], selection[antibiotic])
        ownGenes == IF own THEN GenesOf(d[isolateID], antibiotic) ELSE << >>
        classGenes == IF hasClass THEN GenesOf(d[isolateID], selection[antibiotic])
                      ELSE << >>
    IN  [text |-> IF own \/ hasClass
                  THEN [none |-> FALSE,
                        parts |-> (IF own THEN <<[head |-> antibiotic,
                                                  genes |-> Range(ownGenes)]>>
                                   ELSE << >>)
                                  \o (IF hasClass
                                      THEN <<[head |-> selection[antibiotic],
                                              genes |-> Range(classGenes)]>>
                                      ELSE << >>)]
                  ELSE [none |-> TRUE, parts |-> << >>],
         count |-> 5 + Len(ownGenes) + Len(classGenes)]

\* lines 231-232, make_annotations: one annotation and one size per pair of
\* product(isolateIDs, antibiotics)
MakeAnnotations ==
    /\ pc = "annotate"
    /\ LET pairs == Flatten([i \in DOMAIN isolateIDs |->
                        [j \in DOMAIN Sorted(antibiotics) |->
                            Annotation(data, ClassSelection, isolateIDs[i],
                                       Sorted(antibiotics)[j])]])
       IN  /\ AbxAnnots' = AbxAnnots \o [j \in DOMAIN pairs |-> pairs[j].text]
           /\ GeneCount' = GeneCount \o [j \in DOMAIN pairs |-> pairs[j].count]
    /\ pc' = "called"
    /\ UNCHANGED <<strVars, fuseVars, corrVars, args, err, globbed, ClassSelection,
                   Genotype, show_genefrequency, textoverlay, antibioticcolours, calls,
                   gffig, produced>>

\* A run of statements that write or display things: r.out is what was produced
\* so far and r.err the exception raised, "none" while there is none; a
\* statement after a raise is not executed.
Emit(r, things) == IF r.err # "none" THEN r ELSE [r EXCEPT !.out = @ \o things]

Fail(r, e) == IF r.err # "none" THEN r ELSE [r EXCEPT !.err = e]

\* lines 535-561, plot_frequencies: the frame of an empty GeneFrequencies has
\* no "isolates" column
plot_frequencies(r, gf) ==
    IF \A g \in DOMAIN gf : gf[g] = << >> THEN Fail(r, "KeyError: isolates") ELSE r

\* lines 476-507, create_profile: a name settings.json already has raises
create_profile(r, inSettings, genotype) ==
    IF inSettings THEN Fail(r, "ValueError: Profile already exists")
    ELSE Emit(r, <<"profile">> \o (IF genotype THEN <<"profile_gf">> ELSE << >>))

\* lines 510-532, export_HTML: a file already in Downloads raises
export_HTML(r, inDownloads, genotype) ==
    IF inDownloads THEN Fail(r, "FileExistsError: Profile already in Downloads folder")
    ELSE Emit(r, <<"html">> \o (IF genotype THEN <<"html_gf">> ELSE << >>))

\* the display of the gene-frequency figure: gffig.show() / pio.show(gffig)
ShowFrequencies(r, fig) ==
    IF fig = "figure" THEN Emit(r, <<"gffig shown">>)
    ELSE IF fig = "None" THEN Fail(r, "AttributeError: NoneType has no attribute show")
    ELSE Fail(r, "UnboundLocalError: gffig")

\* lines 564-680, plot, from the statement that makes gffig (line 660) on;
\* self.profile is the name given with -n or -b (lines 183-184)
plot(r, inSettings, inDownloads, fig) ==
    LET r1 == IF Genotype THEN plot_frequencies(r, GeneFrequencies) ELSE r
        r2 == IF args.mode # "plot" THEN create_profile(r1, inSettings, Genotype) ELSE r1
        r3 == IF args.export THEN export_HTML(r2, inDownloads, Genotype) ELSE r2
        r4 == IF args.mode # "build" THEN Emit(r3, <<"fig shown">>) ELSE r3
    IN  IF args.mode # "build" /\ ~show_genefrequency THEN ShowFrequencies(r4, fig) ELSE r4

displayFrame ==
    <<strVars, fuseVars, corrVars, args, globbed, ClassSelection, Genotype, textoverlay,
      antibioticcolours, AbxAnnots, GeneCount, calls>>

\* line 818, ShowProfile.plot(), after __call__ returned
Plot ==
    /\ pc = "called"
    /\ gffig' = IF Genotype THEN "figure" ELSE "None"
    /\ \E inSettings \in BOOLEAN, inDownloads \in BOOLEAN :
          LET r == plot([out |-> produced, err |-> "none"], inSettings, inDownloads, gffig')
          IN  /\ produced' = r.out
              /\ IF r.err = "none" THEN pc' = "done" /\ err' = err ELSE Raise(r.err)
    /\ UNCHANGED <<displayFrame, show_genefrequency>>

\* lines 443-473, open_profile, after the profile's figure was read: without
\* the _gf file the except clause leaves gffig unbound, and the call of line
\* 461 reads it
open_profile(r, gfFile, inDownloads) ==
    LET fig == IF gfFile THEN "figure" ELSE "unbound"
        hidden == IF gfFile THEN show_genefrequency ELSE TRUE
        r1 == IF args.export
              THEN IF fig = "unbound" THEN Fail(r, "UnboundLocalError: gffig")
                   ELSE export_HTML(r, inDownloads, Genotype)
              ELSE r
        r2 == Emit(r1, <<"fig shown">>)
    IN  [gffig |-> fig, show_genefrequency |-> hidden,
         r |-> IF ~hidden THEN ShowFrequencies(r2, fig) ELSE r2]

\* line 800, ShowProfile.open_profile(args.load); a profile that was never
\* saved raises when its figure is read (line 450)
OpenProfile ==
    /\ pc = "open_profile"
    /\ \E saved \in BOOLEAN, gfFile \in BOOLEAN, inDownloads \in BOOLEAN :
          IF ~saved
          THEN /\ Raise("FileNotFoundError: profile")
               /\ UNCHANGED <<gffig, show_genefrequency, produced>>
          ELSE LET o == open_profile([out |-> produced, err |-> "none"], gfFile, inDownloads)
               IN  /\ gffig' = o.gffig
                   /\ show_genefrequency' = o.show_genefrequency
                   /\ produced' = o.r.out
                   /\ IF o.r.err = "none" THEN pc' = "done" /\ err' = err
                      ELSE Raise(o.r.err)
    /\ UNCHANGED displayFrame

Next ==
    \/ Dispatch \/ GetPheno \/ Settings \/ GetRGI \/ GetStaramr \/ GetAmrfinder
    \/ MakeAnnotations \/ Plot \/ OpenProfile

Spec == Init /\ [][Next]_vars

(***************************************************************************)
(* Claims about the fusion                                                 *)
(***************************************************************************)
\* C1: every gene listed for an isolate under any key has an entry in
\* GeneFrequencies whose isolates include that isolate.
C1_GenesHaveFrequencies ==
    \A ID \in DOMAIN data : \A j \in DOMAIN data[ID] : \A gene \in Range(data[ID][j].g) :
        /\ GeneFrequencies[gene] # << >>
        /\ ID \in Range(GeneFrequencies[gene])

\* all three loaders have run and one gene was filed for both isolates
C1_Witness ==
    /\ pc = "called"
    /\ \A s \in Sources : globbed[s] = "some"
    /\ \E gene \in Genes : Range(GeneFrequencies[gene]) = {1, 2}
    /\ \E ID \in DOMAIN data : Len(data[ID]) = 2

\* C10: a loader that finds no file raises the no-files error of its source
\* and adds nothing to data or GeneFrequencies; the loader of a source that was
\* not requested never runs, and its error is never raised.
C10_NoFilesRaises ==
    [][\A s \in Sources :
          /\ (globbed[s] = "not run" /\ globbed'[s] # "not run") =>
                /\ s \in args.sources
                /\ globbed'[s] = "none" =>
                      /\ pc' = "failed" /\ err' = NoFilesError(s)
                      /\ data' = data /\ GeneFrequencies' = GeneFrequencies
          /\ s \notin args.sources =>
                globbed'[s] = "not run" /\ err' # NoFilesError(s)]_vars

\* staramr found no files after RGI was loaded; amrfinder was not requested
C10_Witness ==
    /\ err = NoFilesError("staramr") /\ globbed["staramr"] = "none"
    /\ globbed["RGI"] = "some" /\ Assigned > 0
    /\ "amrfinder" \notin args.sources /\ globbed["amrfinder"] = "not run"

(***************************************************************************)
(* Claims about the pipeline: dispatch, DataHandler.__call__, plot and     *)
(* open_profile                                                            *)
(***************************************************************************)
NoPhenoAtDispatch == "FileNotFoundError: A file was given without phenotypic file"

NoPhenoAtCall == "FileNotFoundError: No phenotypic data file given"

NoAntibiotics == "ValueError: No list of antibiotics provided"

InvalidValue == "KeyError: Invalid phenotypic resistance value"

WrongSchema == "ValueError: resfinder output of staramr"

\* the errors raised before the fused data is made (line 202)
EarlyErrors ==
    {NoPhenoAtDispatch, NoPhenoAtCall, NoAntibiotics, InvalidValue,
     "ValueError: antibiotic not in the phenotypic file"}

\* the errors raised by the dispatch or inside DataHandler.__call__
BuildErrors ==
    EarlyErrors \cup {NoFilesError(s) : s \in Sources}
        \cup {WrongSchema, "KeyError: isolate ID"}

\* the sources __call__ reads after source s
Later(s) ==
    IF s = "RGI" THEN {"staramr", "amrfinder"}
    ELSE IF s = "staramr" THEN {"amrfinder"} ELSE {}

\* the run builds a profile (neither -p nor -l) and is past the dispatch
Building == ~args.profiles /\ ~args.load /\ pc \notin {"dispatch", "exit"}

\* C14: once the dispatch or a step of __call__ has raised, the run has ended:
\* the sources after the failing one were never read, and there are no
\* annotations, no marker sizes, no plot, no saved profile and no export.
C14_FailFast ==
    err \in BuildErrors =>
        /\ pc = "failed"
        /\ AbxAnnots = << >> /\ GeneCount = << >>
        /\ produced = << >> /\ gffig = "unbound"
        /\ \A s \in Sources :
              (err = NoFilesError(s) \/ (s = "staramr" /\ err = WrongSchema)) =>
                  \A t \in Later(s) : globbed[t] = "not run"

\* staramr had the wrong schema after RGI was loaded, in a run asked to save
\* and export the profile
C14_Witness ==
    /\ err = WrongSchema /\ globbed["RGI"] = "some" /\ calls # << >>
    /\ args.export /\ args.mode = "new" /\ "amrfinder" \in args.sources

\* the cell of isolate i for antibiotic a after the missing values are filled
Filled(i, a) == IF pheno.cells[i][a] = "nan" THEN "U" ELSE pheno.cells[i][a]

GetPhenoRan == Building /\ args.pheno /\ pc # "start"

GetPhenoReturned ==
    GetPhenoRan /\ err \notin {InvalidValue, "ValueError: antibiotic not in the phenotypic file"}

\* C15: after get_pheno returned, the cells of the selected antibiotics, row
\* after row, are the sheet's with every missing one U, and each is one of R,
\* I, S, U; a selected cell that is none of them makes get_pheno raise the
\* invalid-value error.
C15_PhenotypeCells ==
    /\ GetPhenoReturned =>
          LET abx == Sorted(antibiotics)
              m == Len(abx)
          IN  /\ Len(textoverlay) = Len(isolateIDs) * m
              /\ Len(isolateIDs) = Len(pheno.cells)
              /\ \A i \in DOMAIN isolateIDs : \A j \in 1..m :
                    /\ textoverlay[(i - 1) * m + j] = Filled(i, abx[j])
                    /\ textoverlay[(i - 1) * m + j] \in Calls
    /\ (GetPhenoRan /\ antibiotics \subseteq pheno.columns
           /\ \E i \in DOMAIN pheno.cells : \E a \in antibiotics : Filled(i, a) \notin Calls)
          => pc = "failed" /\ err = InvalidValue

\* get_pheno returned a table in which it had filled a missing cell, while a
\* column that was not selected holds an invalid value
C15_Witness ==
    /\ GetPhenoReturned /\ pc = "called"
    /\ antibiotics = {"AntibioticX"} /\ pheno.columns = Antibiotics
    /\ \E i \in DOMAIN pheno.cells :
          /\ pheno.cells[i]["AntibioticX"] = "nan"
          /\ textoverlay[i] = "U"
    /\ \E i \in DOMAIN pheno.cells : pheno.cells[i]["AntibioticY"] = "Q"

NoSourceRead == calls = << >> /\ \A s \in Sources : globbed[s] = "not run"

\* C16: without a phenotype file no source is ever read, and the run, once
\* past the dispatch (or past line 186 when no source was given), has failed
\* with the missing-file error; with a phenotype table that yields no
\* antibiotic, the run has failed with the no-antibiotics error once past line
\* 193, and no source was read.
C16_MissingInputBeforeSources ==
    /\ ~args.pheno => NoSourceRead
    /\ (~args.pheno /\ ~args.profiles /\ args.sources # {} /\ pc # "dispatch")
          => pc = "failed" /\ err = NoPhenoAtDispatch
    /\ (~args.pheno /\ Building /\ pc # "start")
          => pc = "failed" /\ err \in {NoPhenoAtDispatch, NoPhenoAtCall}
    /\ (GetPhenoRan /\ antibiotics = {} /\ pc # "settings")
          => pc = "failed" /\ err = NoAntibiotics
    /\ err \in {NoPhenoAtDispatch, NoPhenoAtCall, NoAntibiotics} => NoSourceRead

\* a sheet without antibiotic columns was read, sources were requested, and
\* the run failed for want of antibiotics
C16_Witness ==
    /\ err = NoAntibiotics /\ args.sources = Sources
    /\ isolateIDs # << >> /\ pheno.columns = {}

\* the list of isolate I under key K, empty when there is none
ListAt(d, I, K) == IF HasKey(d[I], K) THEN GenesOf(d[I], K) ELSE << >>

\* the genes of the assign_gene calls made for isolate I and key K, in order
CallsFor(I, K) ==
    LET cs == SelectSeq(calls, LAMBDA c : c.ID = I /\ c.key = K)
    IN  [j \in DOMAIN cs |-> cs[j].gene]

\* C17: the list of every isolate under every key is the genes of the calls
\* made for that isolate and key, in call order, duplicates kept; an isolate
\* has a key only when a call was made for it, and has it once.
C17_MergeRule ==
    \A I \in DOMAIN data :
        /\ \A K \in Keys : ListAt(data, I, K) = CallsFor(I, K)
        /\ \A j \in DOMAIN data[I] :
              /\ data[I][j].k \in Keys /\ CallsFor(I, data[I][j].k) # << >>
              /\ \A k \in DOMAIN data[I] : data[I][k].k = data[I][j].k => k = j

\* two sources filed the same gene for the same isolate and key, and another
\* list exists beside it
C17_Witness ==
    /\ pc = "called"
    /\ Cardinality({s \in Sources : globbed[s] = "some"}) >= 2
    /\ \E I \in DOMAIN data, K \in Keys, g \in Genes :
          /\ Len(ListAt(data, I, K)) = 2 /\ Range(ListAt(data, I, K)) = {g}
    /\ Len(calls) = 3
    /\ Cardinality({<<calls[j].ID, calls[j].key>> : j \in DOMAIN calls}) = 2

\* the antibiotic's class in the settings, "none" when the settings lack it
SettingsClass(a) ==
    IF \E j \in DOMAIN class_antibiotic : class_antibiotic[j].abx = a
    THEN ClassOf(a) ELSE "none"

AnnotationsMade ==
    Building /\ (pc \in {"called", "done"} \/ (pc = "failed" /\ err \notin BuildErrors))

\* C18: make_annotations leaves one annotation and one marker size per
\* (isolate, antibiotic), isolate after isolate; the annotation is "No
\* genotype identified" exactly when the isolate has no list under the
\* antibiotic and none under its class, and the size is 5 plus the lengths of
\* those lists.
C18_Annotations ==
    AnnotationsMade =>
        LET abx == Sorted(antibiotics)
            m == Len(abx)
        IN  /\ Len(AbxAnnots) = Len(isolateIDs) * m
            /\ Len(GeneCount) = Len(isolateIDs) * m
            /\ \A i \in DOMAIN isolateIDs : \A j \in 1..m :
                  LET own == ListAt(data, isolateIDs[i], abx[j])
                      cls == IF SettingsClass(abx[j]) = "none" THEN << >>
                             ELSE ListAt(data, isolateIDs[i], SettingsClass(abx[j]))
                  IN  /\ AbxAnnots[(i - 1) * m + j].none <=> (own = << >> /\ cls = << >>)
                      /\ GeneCount[(i - 1) * m + j] = 5 + Len(own) + Len(cls)

\* one isolate has a gene twice under the antibiotic and once under its
\* class, another has no genotype at all
C18_Witness ==
    /\ AnnotationsMade
    /\ \E j \in DOMAIN GeneCount : GeneCount[j] = 8 /\ ~AbxAnnots[j].none
    /\ \E j \in DOMAIN GeneCount : GeneCount[j] = 5 /\ AbxAnnots[j].none
    /\ Len(isolateIDs) = 2

\* the fused data has been made (line 202)
FusedDataMade ==
    Building /\ (pc \in {"RGI", "staramr", "amrfinder", "annotate", "called", "done"}
                    \/ (pc = "failed" /\ err \notin EarlyErrors))

\* the sum of the lengths of the lists of the data
RECURSIVE Lengths(_)
Lengths(qq) == IF qq = << >> THEN 0 ELSE Len(Head(qq).g) + Lengths(Tail(qq))

\* C19: once the fused data is made its isolates are those of the phenotype
\* table, whatever the loaders do; a call for an isolate the table lacks
\* raises, and the data and the gene frequencies hold the calls that
\* returned and nothing else.
C19_IsolateKeys ==
    /\ FusedDataMade => DOMAIN data = Range(isolateIDs) /\ Len(data) = Len(pheno.cells)
    /\ err = "KeyError: isolate ID" =>
          /\ pc = "failed"
          /\ Assigned = Len(calls)
          /\ Lengths(Flatten(data)) = Len(calls)
          /\ \A j \in DOMAIN calls : calls[j].ID \in Range(isolateIDs)

\* a report named an isolate the table lacks after two calls had returned
C19_Witness ==
    /\ err = "KeyError: isolate ID" /\ Len(calls) = 2
    /\ Len(isolateIDs) = 2

GeneFrequencyThings == {"gffig shown", "profile_gf", "html_gf"}

\* open_profile read a profile that has no gene-frequency file
LoadedWithoutFrequencies ==
    /\ args.load /\ pc \in {"done", "failed"}
    /\ err \notin {NoPhenoAtDispatch, "FileNotFoundError: profile"}
    /\ gffig = "unbound"

\* plot ran on a profile built without genotype data
PlottedWithoutGenotype == Building /\ pc \in {"done", "failed"} /\ gffig = "None"

\* C20: a loaded profile without a gene-frequency file has its main plot
\* displayed, export or not, and no gene-frequency figure displayed or
\* exported; a plot built without genotype data never uses the figure it
\* does not have.
C20_NoGeneFrequencyFigure ==
    /\ LoadedWithoutFrequencies =>
          /\ "fig shown" \in Range(produced)
          /\ Range(produced) \cap GeneFrequencyThings = {}
    /\ PlottedWithoutGenotype =>
          /\ Range(produced) \cap GeneFrequencyThings = {}
          /\ err \notin {"AttributeError: NoneType has no attribute show",
                         "KeyError: isolates"}

====
